---- MODULE Spec2Model ----
(***************************************************************************)
(* Teeny Tiny compiler: lex.Lexer, parse.Parser, emit.Emitter and the      *)
(* driver teenytiny.main as one state machine.                             *)
(*                                                                         *)
(* Text is a sequence of one-character strings.  The lexer is modelled     *)
(* loop iteration by loop iteration (lex_pc is the place inside            *)
(* Lexer.get_token); the recursive-descent parser is modelled with an      *)
(* explicit control stack whose frames are the places a Parser method      *)
(* resumes at after the call it made (a next_token() call or a call of     *)
(* another grammar rule) returns.  sys.exit() is the variable exit_msg:    *)
(* once it is set no step is enabled.                                      *)
(***************************************************************************)
EXTENDS Integers, Sequences, FiniteSets, TLC

VARIABLES
    source,           \* Lexer.source: the input with "\n" appended
    source_len,       \* Lexer.source_len
    char,             \* Lexer.char
    pos,              \* Lexer.pos (0-based, as in the code)
    lex_pc,           \* place inside Lexer.get_token ("idle": not running)
    start,            \* get_token's local `start`
    current_token,    \* Parser.current_token
    peek_token,       \* Parser.peek_token
    symbols,          \* Parser.symbols
    labels_declared,  \* Parser.labels_declared
    labels_gotoed,    \* Parser.labels_gotoed
    header,           \* Emitter.header
    code,             \* Emitter.code
    out_file,         \* the file Emitter.write_file writes
    stack,            \* control stack of main / Parser (top first)
    exit_msg,         \* argument of sys.exit(), NoExit while running
    tokens            \* history: every token that became current_token

lexvars  == <<char, pos, lex_pc, start>>
tokvars  == <<current_token, peek_token, tokens>>
symvars  == <<symbols, labels_declared, labels_gotoed>>
emitvars == <<header, code>>
srcvars  == <<source, source_len>>
vars == <<source, source_len, char, pos, lex_pc, start, current_token,
          peek_token, symbols, labels_declared, labels_gotoed, header, code,
          out_file, stack, exit_msg, tokens>>

(***************************************************************************)
(* Bounds of the explored inputs.                                          *)
(***************************************************************************)
MaxStmts == 3
MaxChars == 4
MaxOpChars == 3
MaxArgChars == 3

(***************************************************************************)
(* Characters.                                                             *)
(***************************************************************************)
\* "\0", the character next_char and peek give at and beyond source_len
NUL == "NUL"
Digit == {"0", "1", "2", "3", "4", "5", "6", "7", "8", "9"}
Alpha == {"a", "b", "c", "d", "e", "f", "g", "h", "i", "j", "k", "l", "m",
          "n", "o", "p", "q", "r", "s", "t", "u", "v", "w", "x", "y", "z",
          "A", "B", "C", "D", "E", "F", "G", "H", "I", "J", "K", "L", "M",
          "N", "O", "P", "Q", "R", "S", "T", "U", "V", "W", "X", "Y", "Z"}
isdigit(c) == c \in Digit
isalpha(c) == c \in Alpha
isalnum(c) == c \in Alpha \cup Digit

(***************************************************************************)
(* lex.TokenType and lex.Token.                                            *)
(***************************************************************************)
\* the members of the enumeration: kind.name (as a string and as text) and
\* kind.value
TokenType ==
    {[name |-> "EOF", value |-> -1, text |-> <<"E", "O", "F">>],
     [name |-> "NEWLINE", value |-> 0, text |-> <<"N", "E", "W", "L", "I", "N", "E">>],
     [name |-> "NUMBER", value |-> 1, text |-> <<"N", "U", "M", "B", "E", "R">>],
     [name |-> "IDENT", value |-> 2, text |-> <<"I", "D", "E", "N", "T">>],
     [name |-> "STRING", value |-> 3, text |-> <<"S", "T", "R", "I", "N", "G">>],
     [name |-> "LABEL", value |-> 101, text |-> <<"L", "A", "B", "E", "L">>],
     [name |-> "GOTO", value |-> 102, text |-> <<"G", "O", "T", "O">>],
     [name |-> "PRINT", value |-> 103, text |-> <<"P", "R", "I", "N", "T">>],
     [name |-> "INPUT", value |-> 104, text |-> <<"I", "N", "P", "U", "T">>],
     [name |-> "LET", value |-> 105, text |-> <<"L", "E", "T">>],
     [name |-> "IF", value |-> 106, text |-> <<"I", "F">>],
     [name |-> "THEN", value |-> 107, text |-> <<"T", "H", "E", "N">>],
     [name |-> "ENDIF", value |-> 108, text |-> <<"E", "N", "D", "I", "F">>],
     [name |-> "WHILE", value |-> 109, text |-> <<"W", "H", "I", "L", "E">>],
     [name |-> "REPEAT", value |-> 110, text |-> <<"R", "E", "P", "E", "A", "T">>],
     [name |-> "ENDWHILE", value |-> 111, text |-> <<"E", "N", "D", "W", "H", "I", "L", "E">>],
     [name |-> "EQ", value |-> 201, text |-> <<"E", "Q">>],
     [name |-> "PLUS", value |-> 202, text |-> <<"P", "L", "U", "S">>],
     [name |-> "MINUS", value |-> 203, text |-> <<"M", "I", "N", "U", "S">>],
     [name |-> "ASTERISK", value |-> 204, text |-> <<"A", "S", "T", "E", "R", "I", "S", "K">>],
     [name |-> "SLASH", value |-> 205, text |-> <<"S", "L", "A", "S", "H">>],
     [name |-> "EQEQ", value |-> 206, text |-> <<"E", "Q", "E", "Q">>],
     [name |-> "NOTEQ", value |-> 207, text |-> <<"N", "O", "T", "E", "Q">>],
     [name |-> "LT", value |-> 208, text |-> <<"L", "T">>],
     [name |-> "LTEQ", value |-> 209, text |-> <<"L", "T", "E", "Q">>],
     [name |-> "GT", value |-> 210, text |-> <<"G", "T">>],
     [name |-> "GTEQ", value |-> 211, text |-> <<"G", "T", "E", "Q">>]}

Token(text, kind) == [text |-> text, kind |-> kind]
\* Python's None, the tokens before the constructor's next_token() calls
NoneToken == Token(<<>>, "None")

\* Token.is_keyword: the kind named `text` with 100 <= value <= 200, or None
is_keyword(text) ==
    LET found == {kind \in TokenType :
                     /\ kind.text = text
                     /\ 100 <= kind.value
                     /\ kind.value <= 200}
    IN  IF found = {} THEN "None" ELSE (CHOOSE kind \in found : TRUE).name

(***************************************************************************)
(* sys.exit.                                                               *)
(***************************************************************************)
NoExit == [who |-> "", what |-> "", arg |-> ""]
\* the process is still running: no sys.exit() so far
Running == exit_msg = NoExit
\* Parser.abort(message): sys.exit("Error " + message)
ParserExit(what, arg) == [who |-> "Error ", what |-> what, arg |-> arg]
\* Lexer.abort(message): sys.exit("Lexing error. " + message)
LexerExit(what) == [who |-> "Lexing error. ", what |-> what, arg |-> ""]

(***************************************************************************)
(* Lexer.                                                                  *)
(***************************************************************************)
\* faulty variant: no newline appended to the input
SourceOf_NoNewline(input) == input

\* Lexer.__init__: self.source = input + "\n"
SourceOf(input) == input \o <<"\n">>

\* faulty variant: the cursor advances by two
NextPos_Twice(p) == p + 2

\* next_char's increment of self.pos
NextPos(p) == p + 1

\* the character next_char stores for offset p
CharAt(p) == IF p >= source_len THEN NUL ELSE source[p + 1]

\* Lexer.peek
peek == IF pos + 1 >= source_len THEN NUL ELSE source[pos + 2]

\* Lexer.next_char, n times in a row
next_char(n) ==
    /\ pos' = (IF n = 2 THEN NextPos(NextPos(pos)) ELSE NextPos(pos))
    /\ char' = CharAt(pos')

\* Lexer.abort inside get_token, after n next_char() calls of the same branch
LexAbort(what, n) ==
    /\ exit_msg' = LexerExit(what)
    /\ IF n = 0 THEN UNCHANGED <<char, pos>> ELSE next_char(n)
    /\ UNCHANGED <<srcvars, lex_pc, start, tokvars, symvars, emitvars, out_file,
                   stack>>

\* get_token's tail: self.next_char(); return token, after `before` earlier
\* next_char() calls of the same branch; Parser.next_token stores the result
\* in peek_token
ReturnToken(token, before) ==
    /\ next_char(before + 1)
    /\ peek_token' = token
    /\ lex_pc' = "idle"
    /\ UNCHANGED <<srcvars, start, current_token, tokens, symvars, emitvars,
                   out_file, stack, exit_msg>>

\* a step of get_token that only moves inside the lexer
LexStep(pc, n) ==
    /\ lex_pc' = pc
    /\ IF n = 0 THEN UNCHANGED <<char, pos>> ELSE next_char(n)
    /\ UNCHANGED <<srcvars, tokvars, symvars, emitvars, out_file, stack, exit_msg>>

InLexer(pc) == Running /\ lex_pc = pc

\* skip_whitespace: while self.char in [" ", "\t", "\r"]: self.next_char()
skip_whitespace ==
    /\ InLexer("skip_whitespace")
    /\ IF char \in {" ", "\t", "\r"}
         THEN LexStep("skip_whitespace", 1)
         ELSE LexStep("skip_comment", 0)
    /\ UNCHANGED start

\* skip_comment: if self.char == "#": while self.char != "\n": next_char()
skip_comment ==
    /\ InLexer("skip_comment")
    /\ IF char = "#" THEN LexStep("comment", 0) ELSE LexStep("token", 0)
    /\ UNCHANGED start

skip_comment_loop ==
    /\ InLexer("comment")
    /\ IF char # "\n" THEN LexStep("comment", 1) ELSE LexStep("token", 0)
    /\ UNCHANGED start

\* + - * /
SingleKind == [c \in {"+", "-", "*", "/"} |->
    CASE c = "+" -> "PLUS" [] c = "-" -> "MINUS"
      [] c = "*" -> "ASTERISK" [] c = "/" -> "SLASH"]

get_token_arith ==
    /\ InLexer("token")
    /\ char \in DOMAIN SingleKind
    /\ ReturnToken(Token(<<char>>, SingleKind[char]), 0)

\* text of the EQEQ token: Token(last_char, TokenType.EQEQ)
EqEqText(last_char, c) == <<last_char>>
\* text of GTEQ, LTEQ, NOTEQ: Token(last_char + self.char, kind)
TwoCharText(last_char, c) == <<last_char, c>>

get_token_eq ==
    /\ InLexer("token")
    /\ char = "="
    /\ IF peek = "="
         THEN ReturnToken(Token(EqEqText(char, CharAt(NextPos(pos))), "EQEQ"), 1)
         ELSE ReturnToken(Token(<<char>>, "EQ"), 0)

get_token_gt ==
    /\ InLexer("token")
    /\ char = ">"
    /\ IF peek = "="
         THEN ReturnToken(Token(TwoCharText(char, CharAt(NextPos(pos))), "GTEQ"), 1)
         ELSE ReturnToken(Token(<<char>>, "GT"), 0)

get_token_lt ==
    /\ InLexer("token")
    /\ char = "<"
    /\ IF peek = "="
         THEN ReturnToken(Token(TwoCharText(char, CharAt(NextPos(pos))), "LTEQ"), 1)
         ELSE ReturnToken(Token(<<char>>, "LT"), 0)

get_token_bang ==
    /\ InLexer("token")
    /\ char = "!"
    /\ IF peek = "="
         THEN ReturnToken(Token(TwoCharText(char, CharAt(NextPos(pos))), "NOTEQ"), 1)
         ELSE LexAbort("Expected !=, got !", 0)

\* the opening quote: self.next_char(); start = self.pos
get_token_quote ==
    /\ InLexer("token")
    /\ char = "\""
    /\ LexStep("string", 1)
    /\ start' = pos'

\* the members of the tuple ("\r", "\t", "\n", "//", "%") that self.char is
\* looked up in; self.char is one character
IllegalInString == {"\r", "\t", "\n", "//", "%"}

\* while self.char != '"': ...; then text = self.source[start : self.pos]
get_token_string ==
    /\ InLexer("string")
    /\ IF char # "\""
         THEN IF char \in IllegalInString
                THEN LexAbort("Illegal character in string.", 0)
                ELSE LexStep("string", 1) /\ UNCHANGED start
         ELSE ReturnToken(Token(SubSeq(source, start + 1, pos), "STRING"), 0)

get_token_digit ==
    /\ InLexer("token")
    /\ isdigit(char)
    /\ LexStep("number", 0)
    /\ start' = pos

\* while self.peek().isdigit(): next_char(); then the optional "." part
get_token_number ==
    /\ InLexer("number")
    /\ IF isdigit(peek)
         THEN LexStep("number", 1) /\ UNCHANGED start
         ELSE IF peek = "."
                THEN IF ~isdigit(CharAt(NextPos(NextPos(pos))))
                       THEN LexAbort("illegal character in number at ", 1)
                       ELSE LexStep("fraction", 1) /\ UNCHANGED start
                ELSE ReturnToken(Token(SubSeq(source, start + 1, pos + 1), "NUMBER"), 0)

\* the second while self.peek().isdigit() loop, after the "."
get_token_fraction ==
    /\ InLexer("fraction")
    /\ IF isdigit(peek)
         THEN LexStep("fraction", 1) /\ UNCHANGED start
         ELSE ReturnToken(Token(SubSeq(source, start + 1, pos + 1), "NUMBER"), 0)

get_token_alpha ==
    /\ InLexer("token")
    /\ isalpha(char)
    /\ LexStep("ident", 0)
    /\ start' = pos

\* while self.peek().isalnum(): next_char(); then the keyword lookup
get_token_ident ==
    /\ InLexer("ident")
    /\ IF isalnum(peek)
         THEN LexStep("ident", 1) /\ UNCHANGED start
         ELSE LET text == SubSeq(source, start + 1, pos + 1)
                  keyword == is_keyword(text)
              IN  IF keyword = "None"
                    THEN ReturnToken(Token(text, "IDENT"), 0)
                    ELSE ReturnToken(Token(text, keyword), 0)

get_token_newline ==
    /\ InLexer("token")
    /\ char = "\n"
    /\ ReturnToken(Token(<<char>>, "NEWLINE"), 0)

get_token_eof ==
    /\ InLexer("token")
    /\ char = NUL
    /\ ReturnToken(Token(<<char>>, "EOF"), 0)

get_token_unknown ==
    /\ InLexer("token")
    /\ char \notin DOMAIN SingleKind \cup {"=", ">", "<", "!", "\"", "\n", NUL}
    /\ ~isdigit(char)
    /\ ~isalpha(char)
    /\ LexAbort("Unknown token: ", 0)

Lex ==
    \/ skip_whitespace
    \/ skip_comment
    \/ skip_comment_loop
    \/ get_token_arith
    \/ get_token_eq
    \/ get_token_gt
    \/ get_token_lt
    \/ get_token_bang
    \/ get_token_quote
    \/ get_token_string
    \/ get_token_digit
    \/ get_token_number
    \/ get_token_fraction
    \/ get_token_alpha
    \/ get_token_ident
    \/ get_token_newline
    \/ get_token_eof
    \/ get_token_unknown

(***************************************************************************)
(* Emitter.                                                                *)
(***************************************************************************)
\* Emitter.emit: self.code += code
emit(text, c) == text \o c
\* Emitter.emit_line: self.code += code + "\n"
emit_line(text, c) == text \o c \o <<"\n">>
\* Emitter.header_line: self.header += code + "\n"
header_line(text, c) == text \o c \o <<"\n">>

\* Emitter.write_file: f.write(self.header + self.code)
NoFile == [written |-> FALSE, text |-> <<>>]
\* faulty variant: write_file() in a finally clause, run after a sys.exit() too
ReachedWriteFile_Finally ==
    /\ ~out_file.written
    /\ stack # <<>>
    /\ \/ exit_msg # NoExit
       \/ Running /\ lex_pc = "idle" /\ Head(stack) = "write_file"

\* main() reaches emitter.write_file(): parser.program() has returned
ReachedWriteFile ==
    /\ Running
    /\ lex_pc = "idle"
    /\ stack # <<>>
    /\ Head(stack) = "write_file"

write_file ==
    /\ ReachedWriteFile
    /\ out_file' = [written |-> TRUE, text |-> header \o code]
    /\ stack' = Tail(stack)
    /\ UNCHANGED <<srcvars, lexvars, tokvars, symvars, emitvars, exit_msg>>

(***************************************************************************)
(* Parser.                                                                 *)
(***************************************************************************)
\* a Parser method is at the place `frame`, and no get_token is running
At(frame) ==
    /\ Running
    /\ lex_pc = "idle"
    /\ stack # <<>>
    /\ Head(stack) = frame

\* what is left to do once the current place is done
Rest == Tail(stack)

check_token(kind) == kind = current_token.kind
check_peek(kind) == kind = peek_token.kind

\* Parser.next_token: current_token = peek_token; peek_token = get_token().
\* The get_token call runs as the lexer's steps; `then` is where the parser
\* goes on when it has returned.
next_token(then) ==
    /\ current_token' = peek_token
    /\ tokens' = IF peek_token = NoneToken THEN tokens ELSE Append(tokens, peek_token)
    /\ lex_pc' = "skip_whitespace"
    /\ stack' = then
    /\ UNCHANGED <<srcvars, char, pos, start, peek_token, out_file, exit_msg>>

\* Parser.abort(message)
abort(what, arg) ==
    /\ exit_msg' = ParserExit(what, arg)
    /\ UNCHANGED <<srcvars, lexvars, tokvars, out_file, stack>>

\* Parser.match(kind)
match(kind, then) ==
    IF ~check_token(kind) THEN abort("Expected ", kind) ELSE next_token(then)

\* a step that neither reads a token nor exits
goto(then) ==
    /\ stack' = then
    /\ UNCHANGED <<srcvars, lexvars, tokvars, out_file, exit_msg>>

\* Parser.__init__: the two next_token() calls
init_next_token_1 ==
    /\ At("__init__")
    /\ next_token(<<"__init__2">> \o Rest)
    /\ UNCHANGED <<symvars, emitvars>>

init_next_token_2 ==
    /\ At("__init__2")
    /\ next_token(Rest)
    /\ UNCHANGED <<symvars, emitvars>>

\* program(): the two header lines
program ==
    /\ At("program")
    /\ header' = header_line(header_line(header, <<"#", "i", "n", "c", "l", "u", "d", "e", " ", "<", "s", "t", "d", "i", "o", ".", "h", ">">>),
                             <<"i", "n", "t", " ", "m", "a", "i", "n", "(", "v", "o", "i", "d", ")", "{">>)
    /\ goto(<<"program_newlines">> \o Rest)
    /\ UNCHANGED <<symvars, code>>

\* while self.check_token(TokenType.NEWLINE): self.next_token()
program_newlines ==
    /\ At("program_newlines")
    /\ IF check_token("NEWLINE")
         THEN next_token(stack)
         ELSE goto(<<"program_loop">> \o Rest)
    /\ UNCHANGED <<symvars, emitvars>>

\* faulty variant: the difference taken the wrong way round
UndeclaredLabels_Reversed == labels_declared \ labels_gotoed

\* the names the final loop of program() aborts on
UndeclaredLabels == labels_gotoed \ labels_declared

\* while not self.check_token(TokenType.EOF): self.statement()
\* and, at EOF, the closing lines and the label check
program_loop ==
    /\ At("program_loop")
    /\ IF ~check_token("EOF")
         THEN /\ goto(<<"statement">> \o stack)
              /\ UNCHANGED <<symvars, emitvars>>
         ELSE /\ code' = emit_line(emit_line(code, <<"r", "e", "t", "u", "r", "n", " ", "0", ";">>), <<"}">>)
              /\ IF UndeclaredLabels # {}
                   THEN abort("Attempting to GOTO an undeclared label: ", "")
                   ELSE goto(Rest)
              /\ UNCHANGED <<symvars, header>>

\* statement(): dispatch on the kind of the first token
statement_PRINT ==
    /\ At("statement")
    /\ check_token("PRINT")
    /\ next_token(<<"print_arg", "nl">> \o Rest)
    /\ UNCHANGED <<symvars, emitvars>>

print_arg ==
    /\ At("print_arg")
    /\ IF check_token("STRING")
         THEN /\ code' = emit_line(code,
                    <<"p", "r", "i", "n", "t", "f", "(", "\"">> \o current_token.text \o <<"\\", "n", "\"", ")", ";">>)
              /\ next_token(Rest)
         ELSE /\ code' = emit(code, <<"p", "r", "i", "n", "t", "f", "(", "\"", "%", ".", "2", "f", "\\", "n", "\"", ",", " ", "(", "f", "l", "o", "a", "t", ")", "(">>)
              /\ goto(<<"expression", "print_close">> \o Rest)
    /\ UNCHANGED <<symvars, header>>

print_close ==
    /\ At("print_close")
    /\ code' = emit_line(code, <<")", ")", ";">>)
    /\ goto(Rest)
    /\ UNCHANGED <<symvars, header>>

statement_IF ==
    /\ At("statement")
    /\ check_token("IF")
    /\ next_token(<<"if_cond", "nl">> \o Rest)
    /\ UNCHANGED <<symvars, emitvars>>

if_cond ==
    /\ At("if_cond")
    /\ code' = emit(code, <<"i", "f", "(">>)
    /\ goto(<<"comparison", "if_then">> \o Rest)
    /\ UNCHANGED <<symvars, header>>

if_then ==
    /\ At("if_then")
    /\ match("THEN", <<"nl", "if_body">> \o Rest)
    /\ UNCHANGED <<symvars, emitvars>>

if_body ==
    /\ At("if_body")
    /\ code' = emit_line(code, <<")", "{">>)
    /\ goto(<<"if_loop">> \o Rest)
    /\ UNCHANGED <<symvars, header>>

\* while not self.check_token(TokenType.ENDIF): self.statement()
\* then self.match(TokenType.ENDIF)
if_loop ==
    /\ At("if_loop")
    /\ IF ~check_token("ENDIF")
         THEN goto(<<"statement">> \o stack)
         ELSE match("ENDIF", <<"if_end">> \o Rest)
    /\ UNCHANGED <<symvars, emitvars>>

if_end ==
    /\ At("if_end")
    /\ code' = emit_line(code, <<"}">>)
    /\ goto(Rest)
    /\ UNCHANGED <<symvars, header>>

statement_WHILE ==
    /\ At("statement")
    /\ check_token("WHILE")
    /\ next_token(<<"while_cond", "nl">> \o Rest)
    /\ UNCHANGED <<symvars, emitvars>>

while_cond ==
    /\ At("while_cond")
    /\ code' = emit(code, <<"w", "h", "i", "l", "e", "(">>)
    /\ goto(<<"comparison", "while_repeat">> \o Rest)
    /\ UNCHANGED <<symvars, header>>

while_repeat ==
    /\ At("while_repeat")
    /\ match("REPEAT", <<"nl", "while_body">> \o Rest)
    /\ UNCHANGED <<symvars, emitvars>>

while_body ==
    /\ At("while_body")
    /\ code' = emit_line(code, <<")", "{">>)
    /\ goto(<<"while_loop">> \o Rest)
    /\ UNCHANGED <<symvars, header>>

while_loop ==
    /\ At("while_loop")
    /\ IF ~check_token("ENDWHILE")
         THEN goto(<<"statement">> \o stack)
         ELSE match("ENDWHILE", <<"while_end">> \o Rest)
    /\ UNCHANGED <<symvars, emitvars>>

while_end ==
    /\ At("while_end")
    /\ code' = emit_line(code, <<"}">>)
    /\ goto(Rest)
    /\ UNCHANGED <<symvars, header>>

statement_LABEL ==
    /\ At("statement")
    /\ check_token("LABEL")
    /\ next_token(<<"label_ident", "nl">> \o Rest)
    /\ UNCHANGED <<symvars, emitvars>>

\* faulty variant: only a label that is jumped to counts as a duplicate
LabelExists_IfGotoed(text) == text \in labels_declared /\ text \in labels_gotoed

\* the LABEL name is already in labels_declared
LabelExists(text) == text \in labels_declared

label_ident ==
    /\ At("label_ident")
    /\ IF LabelExists(current_token.text)
         THEN /\ abort("Label already exists: ", "")
              /\ UNCHANGED <<symvars, emitvars>>
         ELSE /\ labels_declared' = labels_declared \cup {current_token.text}
              /\ code' = emit_line(code, current_token.text \o <<":">>)
              /\ match("IDENT", Rest)
              /\ UNCHANGED <<symbols, labels_gotoed, header>>

statement_GOTO ==
    /\ At("statement")
    /\ check_token("GOTO")
    /\ next_token(<<"goto_ident", "nl">> \o Rest)
    /\ UNCHANGED <<symvars, emitvars>>

goto_ident ==
    /\ At("goto_ident")
    /\ labels_gotoed' = labels_gotoed \cup {current_token.text}
    /\ code' = emit_line(code, <<"g", "o", "t", "o", " ">> \o current_token.text \o <<";">>)
    /\ match("IDENT", Rest)
    /\ UNCHANGED <<symbols, labels_declared, header>>

statement_LET ==
    /\ At("statement")
    /\ check_token("LET")
    /\ next_token(<<"let_ident", "nl">> \o Rest)
    /\ UNCHANGED <<symvars, emitvars>>

\* faulty variant: every LET / INPUT declares its target again
IsNewSymbol_Always(text) == TRUE

\* the LET / INPUT target is not in the symbol table yet
IsNewSymbol(text) == text \notin symbols

\* if text not in symbols: symbols.add(text); header_line("float " + text + ";")
Declare(text) ==
    IF IsNewSymbol(text)
      THEN /\ symbols' = symbols \cup {text}
           /\ header' = header_line(header, <<"f", "l", "o", "a", "t", " ">> \o text \o <<";">>)
      ELSE UNCHANGED <<symbols, header>>

let_ident ==
    /\ At("let_ident")
    /\ Declare(current_token.text)
    /\ code' = emit(code, current_token.text \o <<" ", "=", " ">>)
    /\ match("IDENT", <<"let_eq">> \o Rest)
    /\ UNCHANGED <<labels_declared, labels_gotoed>>

let_eq ==
    /\ At("let_eq")
    /\ match("EQ", <<"expression", "let_end">> \o Rest)
    /\ UNCHANGED <<symvars, emitvars>>

let_end ==
    /\ At("let_end")
    /\ code' = emit_line(code, <<";">>)
    /\ goto(Rest)
    /\ UNCHANGED <<symvars, header>>

statement_INPUT ==
    /\ At("statement")
    /\ check_token("INPUT")
    /\ next_token(<<"input_ident", "nl">> \o Rest)
    /\ UNCHANGED <<symvars, emitvars>>

input_ident ==
    /\ At("input_ident")
    /\ Declare(current_token.text)
    /\ code' = emit_line(
                 emit_line(
                   emit(
                     emit_line(
                       emit_line(code,
                         <<"i", "f", "(", "0", " ", "=", "=", " ", "s", "c", "a", "n", "f", "(", "\"", "%", "f", "\"", ",", " ", "&">> \o current_token.text \o <<")", ")", " ", "{">>),
                       current_token.text \o <<" ", "=", " ", "0", ";">>),
                     <<"s", "c", "a", "n", "f", "(", "\"", "%">>),
                   <<"*", "s", "\"", ")", ";">>),
                 <<"}">>)
    /\ match("IDENT", Rest)
    /\ UNCHANGED <<labels_declared, labels_gotoed>>

\* faulty variant: an invalid statement is skipped instead of reported
statement_invalid_Return ==
    /\ Running
    /\ lex_pc = "idle"
    /\ stack # <<>>
    /\ Head(stack) = "statement"
    /\ current_token.kind \notin {"PRINT", "IF", "WHILE", "LABEL", "GOTO", "LET", "INPUT"}
    /\ stack' = Tail(Tail(stack))
    /\ UNCHANGED <<srcvars, lexvars, tokvars, out_file, exit_msg, symvars, emitvars>>

StatementKinds == {"PRINT", "IF", "WHILE", "LABEL", "GOTO", "LET", "INPUT"}

statement_invalid ==
    /\ At("statement")
    /\ current_token.kind \notin StatementKinds
    /\ abort("Invalid statement at ", "")
    /\ UNCHANGED <<symvars, emitvars>>

\* nl(): self.match(TokenType.NEWLINE)
nl ==
    /\ At("nl")
    /\ match("NEWLINE", <<"nl_loop">> \o Rest)
    /\ UNCHANGED <<symvars, emitvars>>

\* nl(): while self.check_token(TokenType.NEWLINE): self.next_token()
nl_loop ==
    /\ At("nl_loop")
    /\ IF check_token("NEWLINE") THEN next_token(stack) ELSE goto(Rest)
    /\ UNCHANGED <<symvars, emitvars>>

is_comparison_op ==
    \E k \in {"GT", "LT", "GTEQ", "LTEQ", "EQEQ", "NOTEQ"} : check_token(k)

\* comparison(): self.expression()
comparison ==
    /\ At("comparison")
    /\ goto(<<"expression", "comparison_op">> \o Rest)
    /\ UNCHANGED <<symvars, emitvars>>

\* comparison(): the operator that must follow the first expression
comparison_op ==
    /\ At("comparison_op")
    /\ IF is_comparison_op
         THEN /\ code' = emit(code, current_token.text)
              /\ next_token(<<"expression", "comparison_loop">> \o Rest)
         ELSE /\ abort("Expected comparison operator at ", "")
              /\ UNCHANGED code
    /\ UNCHANGED <<symvars, header>>

\* comparison(): while self.is_comparison_op(): ...
comparison_loop ==
    /\ At("comparison_loop")
    /\ IF is_comparison_op
         THEN /\ code' = emit(code, current_token.text)
              /\ next_token(<<"expression">> \o stack)
         ELSE /\ goto(Rest)
              /\ UNCHANGED code
    /\ UNCHANGED <<symvars, header>>

\* expression(): self.term()
expression ==
    /\ At("expression")
    /\ goto(<<"term", "expression_loop">> \o Rest)
    /\ UNCHANGED <<symvars, emitvars>>

expression_loop ==
    /\ At("expression_loop")
    /\ IF check_token("PLUS") \/ check_token("MINUS")
         THEN /\ code' = emit(code, current_token.text)
              /\ next_token(<<"term">> \o stack)
         ELSE /\ goto(Rest)
              /\ UNCHANGED code
    /\ UNCHANGED <<symvars, header>>

\* term(): self.unary()
term ==
    /\ At("term")
    /\ goto(<<"unary", "term_loop">> \o Rest)
    /\ UNCHANGED <<symvars, emitvars>>

term_loop ==
    /\ At("term_loop")
    /\ IF check_token("ASTERISK") \/ check_token("SLASH")
         THEN /\ code' = emit(code, current_token.text)
              /\ next_token(<<"unary">> \o stack)
         ELSE /\ goto(Rest)
              /\ UNCHANGED code
    /\ UNCHANGED <<symvars, header>>

unary ==
    /\ At("unary")
    /\ IF check_token("PLUS") \/ check_token("MINUS")
         THEN /\ code' = emit(code, current_token.text)
              /\ next_token(<<"primary">> \o Rest)
         ELSE /\ goto(<<"primary">> \o Rest)
              /\ UNCHANGED code
    /\ UNCHANGED <<symvars, header>>

\* faulty variant: the symbol-table check left out
IsDeclared_Always(text) == TRUE

\* the identifier of a primary is in the symbol table
IsDeclared(text) == text \in symbols

primary ==
    /\ At("primary")
    /\ IF check_token("NUMBER")
         THEN /\ code' = emit(code, current_token.text)
              /\ next_token(Rest)
         ELSE IF check_token("IDENT")
           THEN IF ~IsDeclared(current_token.text)
                  THEN /\ abort("Refrencing variable before assignment: ", "")
                       /\ UNCHANGED code
                  ELSE /\ code' = emit(code, current_token.text)
                       /\ next_token(Rest)
           ELSE /\ abort("Unexpected token at ", "")
                /\ UNCHANGED code
    /\ UNCHANGED <<symvars, header>>

Parse ==
    \/ init_next_token_1
    \/ init_next_token_2
    \/ program
    \/ program_newlines
    \/ program_loop
    \/ statement_PRINT
    \/ print_arg
    \/ print_close
    \/ statement_IF
    \/ if_cond
    \/ if_then
    \/ if_body
    \/ if_loop
    \/ if_end
    \/ statement_WHILE
    \/ while_cond
    \/ while_repeat
    \/ while_body
    \/ while_loop
    \/ while_end
    \/ statement_LABEL
    \/ label_ident
    \/ statement_GOTO
    \/ goto_ident
    \/ statement_LET
    \/ let_ident
    \/ let_eq
    \/ let_end
    \/ statement_INPUT
    \/ input_ident
    \/ statement_invalid
    \/ nl
    \/ nl_loop
    \/ comparison
    \/ comparison_op
    \/ comparison_loop
    \/ expression
    \/ expression_loop
    \/ term
    \/ term_loop
    \/ unary
    \/ primary

(***************************************************************************)
(* The inputs: source files main() reads.                                  *)
(***************************************************************************)
\* all texts over `alphabet` of at most n characters
Texts(alphabet, n) == UNION {[1..k -> alphabet] : k \in 0..n}

RECURSIVE JoinLines(_)
JoinLines(lines) ==
    IF lines = <<>> THEN <<>>
    ELSE IF Len(lines) = 1 THEN lines[1]
    ELSE lines[1] \o <<"\n">> \o JoinLines(Tail(lines))

\* source lines the explored programs are made of
Lines ==
    {<<"L", "E", "T", " ", "a", "=", "1">>, <<"L", "E", "T", " ", "b", "=", "a">>, <<"I", "N", "P", "U", "T", " ", "a">>, <<"P", "R", "I", "N", "T", " ", "a">>,
     <<"L", "A", "B", "E", "L", " ", "x">>, <<"G", "O", "T", "O", " ", "x">>,
     <<"I", "F", " ", "1", ">", "0", " ", "T", "H", "E", "N">>, <<"E", "N", "D", "I", "F">>, <<"W", "H", "I", "L", "E", " ", "a", "<", "1", " ", "R", "E", "P", "E", "A", "T">>}

\* programs of at most MaxStmts of these lines
ProgramInputs == {JoinLines(p) : p \in Texts(Lines, MaxStmts)}

\* PRINT followed by any text of at most MaxChars of these characters
PrintAlphabet == {"\"", "/", "%", "1", "\t"}
PrintInputs == {<<"P", "R", "I", "N", "T", " ">> \o t : t \in Texts(PrintAlphabet, MaxChars)}

\* an IF and a WHILE whose condition has any text of at most MaxOpChars of
\* these characters between its first two operands
OpAlphabet == {"=", "!", "<", ">"}
CmpInputs ==
    {<<"#", "c", "\n", "\n", "L", "E", "T", " ", "a", "=", "-", "1", ".", "5", "+", "2", "*", "3", "/", "4", "-", "5", " ", "#", "c", "\n", "\n", "I", "F", " ", "a">> \o t \o <<" ", "a", "!", "=", "1", " ", "T", "H", "E", "N", "\n", "E", "N", "D", "I", "F", " ", "#", "c">> :
        t \in Texts(OpAlphabet, MaxOpChars)}
    \cup
    {<<"I", "N", "P", "U", "T", " ", "a", "\n", "W", "H", "I", "L", "E", " ", "a">> \o t \o <<" ", "a", " ", "R", "E", "P", "E", "A", "T", "\n", "P", "R", "I", "N", "T", " ", "\"", "s", "\"", "\n", "E", "N", "D", "W", "H", "I", "L", "E">> :
        t \in Texts(OpAlphabet, MaxOpChars)}

\* a statement keyword followed by any text of at most MaxArgChars of these
\* characters
ArgAlphabet == {"a", "1", "="}
KeywordInputs ==
    {k \o <<" ">> \o t : k \in {<<"L", "E", "T">>, <<"I", "N", "P", "U", "T">>, <<"L", "A", "B", "E", "L">>, <<"G", "O", "T", "O">>},
                          t \in Texts(ArgAlphabet, MaxArgChars)}

Inputs == ProgramInputs \cup PrintInputs \cup CmpInputs \cup KeywordInputs

(***************************************************************************)
(* main(): lexer = Lexer(input); emitter = Emitter("out.c");              *)
(* parser = Parser(lexer, emitter); parser.program(); emitter.write_file() *)
(***************************************************************************)
Init ==
    /\ \E input \in Inputs : source = SourceOf(input)
    /\ source_len = Len(source)
    /\ pos = NextPos(-1)
    /\ char = CharAt(pos)
    /\ lex_pc = "idle"
    /\ start = 0
    /\ current_token = NoneToken
    /\ peek_token = NoneToken
    /\ symbols = {}
    /\ labels_declared = {}
    /\ labels_gotoed = {}
    /\ header = <<>>
    /\ code = <<>>
    /\ out_file = NoFile
    /\ stack = <<"__init__", "program", "write_file">>
    /\ exit_msg = NoExit
    /\ tokens = <<>>

Next == Lex \/ Parse \/ write_file

Spec == Init /\ [][Next]_vars

\* the process runs on until it returns from main() or exits
FairSpec == Spec /\ WF_vars(Next)

(***************************************************************************)
(* Vocabulary of the properties: the place the parser is at, and the       *)
(* token stream read so far, by position.                                  *)
(***************************************************************************)
\* the place the parser is at ("" once main() has returned)
Top == IF stack = <<>> THEN "" ELSE Head(stack)
Frames == {stack[i] : i \in DOMAIN stack}
Exited(what) == exit_msg.what = what

\* the positions of the tokens that followed a token of a kind in `kinds`
After(kinds) == {j \in 2..Len(tokens) : tokens[j - 1].kind \in kinds}
\* their texts, at positions before the current token
EarlierAfter(kinds) == {tokens[j].text : j \in After(kinds) \ {Len(tokens)}}
\* their texts, the current token included once its statement has handled it
\* (the parser has left `frames`, or has exited in the match(IDENT) that
\* follows the handling)
HandledAfter(kinds, frames) ==
    {tokens[j].text : j \in {k \in After(kinds) :
        \/ k < Len(tokens)
        \/ Top \notin frames
        \/ exit_msg = ParserExit("Expected ", "IDENT")}}

ProgramReturned == Top \in {"write_file", ""}

(***************************************************************************)
(* C1: label consistency is checked once, at the end of program(), not at  *)
(* the GOTO: the undeclared-label exit happens only at the EOF token of    *)
(* program()'s loop and only with some jumped-to name undeclared; when     *)
(* program() has returned every jumped-to name is declared; and the two    *)
(* sets are exactly the names after the GOTO and LABEL tokens read so far. *)
(***************************************************************************)
C1_LabelCheckAtEnd ==
    /\ Exited("Attempting to GOTO an undeclared label: ") =>
          /\ Top = "program_loop"
          /\ current_token.kind = "EOF"
          /\ ~(labels_gotoed \subseteq labels_declared)
    /\ ProgramReturned => labels_gotoed \subseteq labels_declared
    /\ labels_gotoed = HandledAfter({"GOTO"}, {"goto_ident"})
    /\ (~Exited("Label already exists: ")) =>
          labels_declared = HandledAfter({"LABEL"}, {"label_ident"})

\* C1, its case: a forward jump compiled (GOTO x is the first statement, so
\* LABEL x came later) and the file was written
C1_Witness ==
    /\ out_file.written
    /\ tokens[1].kind = "GOTO"
    /\ tokens[2].text \in labels_declared

EarlierTargets == EarlierAfter({"LET", "INPUT"})

(***************************************************************************)
(* C2: reference before declaration is decided in token order: when        *)
(* primary() is at an IDENT token it exits with the reference-before-      *)
(* assignment error exactly if that text follows no LET or INPUT token at  *)
(* an earlier position of the token stream, whatever block the parser is   *)
(* in; otherwise it accepts the token and reads on.                        *)
(***************************************************************************)
C2_ReferenceBeforeDeclaration ==
    [][(At("primary") /\ check_token("IDENT")) =>
          /\ Exited("Refrencing variable before assignment: ")'
               <=> current_token.text \notin EarlierTargets
          /\ (exit_msg' = NoExit) <=> current_token.text \in EarlierTargets
          /\ (exit_msg' = NoExit) => Len(tokens') = Len(tokens) + 1]_vars

\* C2, its case: an undeclared name inside an IF block is rejected at its token
C2_Witness ==
    /\ Exited("Refrencing variable before assignment: ")
    /\ "if_loop" \in Frames
    /\ current_token.kind = "IDENT"

ComparisonKinds == {"GT", "LT", "GTEQ", "LTEQ", "EQEQ", "NOTEQ"}
\* the characters each comparison operator is written with
Lexeme(kind) ==
    CASE kind = "GT" -> <<">">> [] kind = "GTEQ" -> <<">", "=">>
      [] kind = "LT" -> <<"<">> [] kind = "LTEQ" -> <<"<", "=">>
      [] kind = "EQEQ" -> <<"=", "=">> [] kind = "NOTEQ" -> <<"!", "=">>
EndsWith(text, suffix) ==
    /\ Len(suffix) <= Len(text)
    /\ SubSeq(text, Len(text) - Len(suffix) + 1, Len(text)) = suffix

(***************************************************************************)
(* C3: every comparison-operator token carries its exact lexeme, the one   *)
(* or two characters it was read from, and comparison() emits that lexeme  *)
(* between the operands: "==" is one EQEQ token of two characters and is   *)
(* emitted as "==".                                                        *)
(***************************************************************************)
C3_OperatorLexemeVerbatim ==
    /\ (lex_pc = "idle" /\ exit_msg = NoExit
          /\ peek_token.kind \in ComparisonKinds) =>
          /\ EndsWith(SubSeq(source, 1, pos), Lexeme(peek_token.kind))
          /\ peek_token.text = Lexeme(peek_token.kind)
    /\ (Top = "expression" /\ Len(stack) > 1 /\ stack[2] = "comparison_loop") =>
          EndsWith(code, Lexeme(tokens[Len(tokens) - 1].kind))

(***************************************************************************)
(* C4: no output file on error: the file is written only after program()   *)
(* returned (EOF reached, label check passed, no exit), and once the       *)
(* lexer or the parser has exited nothing runs any more and there is no    *)
(* file, whatever header and code hold.                                    *)
(***************************************************************************)
C4_NoOutputOnError ==
    /\ out_file.written =>
          /\ exit_msg = NoExit
          /\ stack = <<>>
          /\ current_token.kind = "EOF"
          /\ labels_gotoed \subseteq labels_declared
          /\ out_file.text = header \o code
    /\ exit_msg # NoExit => (out_file = NoFile /\ ~ENABLED Next)

\* C4, its case: the parser exited after text had been emitted, and no file
\* exists
C4_Witness ==
    /\ exit_msg.who = "Error "
    /\ code # <<>>
    /\ header # <<>>
    /\ ~out_file.written

Declaration(x) == <<"f", "l", "o", "a", "t", " ">> \o x \o <<";", "\n">>
Prologue == <<"#", "i", "n", "c", "l", "u", "d", "e", " ", "<", "s", "t", "d", "i", "o", ".", "h", ">", "\n", "i", "n", "t", " ", "m", "a", "i", "n", "(", "v", "o", "i", "d", ")", "{", "\n">>
Occurrences(pattern, text) ==
    Cardinality({i \in 1..(Len(text) - Len(pattern) + 1) :
                    SubSeq(text, i, i + Len(pattern) - 1) = pattern})
RECURSIVE TotalLen(_)
TotalLen(S) ==
    IF S = {} THEN 0
    ELSE LET x == CHOOSE y \in S : TRUE
         IN  Len(Declaration(x)) + TotalLen(S \ {x})
TextsSeen == {tokens[j].text : j \in DOMAIN tokens} \cup {peek_token.text}

(***************************************************************************)
(* C5: the symbol table is exactly the set of texts that followed a LET    *)
(* or INPUT token so far, and the header holds the declaration line        *)
(* "float x;" exactly once for each of them and for no other text:         *)
(* besides the two prologue lines the header is nothing but these lines.   *)
(***************************************************************************)
C5_OneDeclarationPerTarget ==
    /\ symbols = HandledAfter({"LET", "INPUT"}, {"let_ident", "input_ident"})
    /\ \A x \in symbols \cup TextsSeen :
          Occurrences(Declaration(x), header) = IF x \in symbols THEN 1 ELSE 0
    /\ Len(header) = TotalLen(symbols)
                       + IF "program" \in Frames THEN 0 ELSE Len(Prologue)

\* C5, its case: one name was the target of three LET / INPUT statements of
\* both kinds, and the program compiled
C5_Witness ==
    /\ Cardinality({j \in After({"LET"}) : tokens[j].text = <<"a">>}) >= 1
    /\ Cardinality({j \in After({"INPUT"}) : tokens[j].text = <<"a">>}) >= 1
    /\ Cardinality({j \in After({"LET", "INPUT"}) : tokens[j].text = <<"a">>}) = 3
    /\ out_file.written

EarlierLabels == EarlierAfter({"LABEL"})

(***************************************************************************)
(* C6: a LABEL statement exits with the duplicate-label error exactly if   *)
(* its name followed a LABEL token earlier in the token stream, whatever   *)
(* labels_gotoed holds, and it exits before anything is recorded or        *)
(* emitted; the first LABEL of a name never does.                          *)
(***************************************************************************)
C6_DuplicateLabel ==
    [][At("label_ident") =>
          /\ Exited("Label already exists: ")'
               <=> current_token.text \in EarlierLabels
          /\ Exited("Label already exists: ")' =>
               UNCHANGED <<labels_declared, labels_gotoed, code, stack>>]_vars

\* C6, its case: a second LABEL x exits although nothing jumps to x
C6_Witness ==
    /\ Exited("Label already exists: ")
    /\ Top = "label_ident"
    /\ current_token.text \notin labels_gotoed

HasDoubleSlash(text) ==
    \E i \in 1..(Len(text) - 1) : text[i] = "/" /\ text[i + 1] = "/"

(***************************************************************************)
(* C7: a STRING token is produced only for content free of carriage        *)
(* return, tab, newline, percent sign and the two-character text "//".     *)
(***************************************************************************)
C7_StringContentRestricted ==
    \A tok \in {tokens[j] : j \in DOMAIN tokens} \cup {peek_token} :
        tok.kind = "STRING" =>
          /\ \A i \in DOMAIN tok.text : tok.text[i] \notin {"\r", "\t", "\n", "%"}
          /\ ~HasDoubleSlash(tok.text)

(***************************************************************************)
(* C8 as claimed: the cursor is always a valid index or exactly            *)
(* source_len; it never moves beyond the end-of-input position.            *)
(***************************************************************************)
C8_CursorWithinSource == 0 <= pos /\ pos <= source_len

(***************************************************************************)
(* C8 as amended: the cursor stays within the source until the lexer has   *)
(* returned the EOF token; each get_token() at the end of input advances   *)
(* it once more, so it ends at most two beyond source_len (the EOF token   *)
(* that fills peek_token, then the one read when EOF becomes               *)
(* current_token); char is the character at pos inside the source and      *)
(* "\0" from source_len on.                                                *)
(***************************************************************************)
C8_CursorBounded ==
    /\ 0 <= pos
    /\ pos <= source_len + 2
    /\ pos > source_len => peek_token.kind = "EOF"
    /\ pos > source_len + 1 => current_token.kind = "EOF"
    /\ char = IF pos < source_len THEN source[pos + 1] ELSE NUL

\* C8, its case: the cursor two beyond the end, EOF being current_token and
\* peek_token
C8_Witness ==
    /\ pos = source_len + 2
    /\ lex_pc = "idle"
    /\ current_token.kind = "EOF"

\* the string being scanned has no closing quote
Unterminated == \A i \in (start + 1)..source_len : source[i] # "\""
StringScanInsideSource ==
    /\ lex_pc = "string" => (start <= pos /\ pos < source_len)
    /\ (lex_pc = "string" /\ exit_msg # NoExit) =>
          exit_msg = LexerExit("Illegal character in string.")
    /\ (lex_pc = "idle" /\ peek_token.kind = "STRING") =>
          (pos <= source_len /\ source[pos] = "\"")

(***************************************************************************)
(* C9: an unterminated string literal is fatal: while a string is scanned  *)
(* the cursor is inside the source; the scan exits only with the lexical   *)
(* error; a STRING token ends at a quote inside the source; from a string  *)
(* with no closing quote the scan never returns a token, and it leads to   *)
(* the lexical-error exit.                                                 *)
(***************************************************************************)
C9_UnterminatedStringIsFatal ==
    /\ []StringScanInsideSource
    /\ [][(lex_pc = "string" /\ Unterminated) => lex_pc' = "string"]_vars
    /\ (lex_pc = "string" /\ Unterminated)
          ~> (exit_msg = LexerExit("Illegal character in string."))

\* C9, its case: the scan of an unterminated string stopped at the appended
\* newline
C9_Witness ==
    /\ lex_pc = "string"
    /\ Unterminated
    /\ exit_msg = LexerExit("Illegal character in string.")
    /\ pos = source_len - 1
    /\ pos > start

Terminated == exit_msg # NoExit \/ stack = <<>>

(***************************************************************************)
(* C10: compilation terminates: every run ends with main() returned or     *)
(* with an exit, and never stops before; each statement() consumes a       *)
(* token or exits at once.                                                 *)
(***************************************************************************)
C10_Termination ==
    /\ <>Terminated
    /\ [][At("statement") =>
            (Len(tokens') = Len(tokens) + 1 \/ exit_msg' # NoExit)]_vars
    /\ [](Terminated \/ ENABLED Next)

\* C10, its case: an IF block with no ENDIF reached EOF and exited with the
\* invalid-statement error
C10_Witness ==
    /\ Exited("Invalid statement at ")
    /\ current_token.kind = "EOF"
    /\ "if_loop" \in Frames

====
